---------------------------- MODULE Spec2Model ----------------------------
(***************************************************************************)
(* Model of cc_catalog_airflow/dags/util/loader/sql.py: the staging        *)
(* loader with its skip-and-retry loop, the staging cleaner, the upsert of *)
(* the staging table into the image table, and the three sub-provider      *)
(* passes over the image table.                                            *)
(*                                                                         *)
(* SQL values.  A scalar column holds a string or NULL.  A jsonb column    *)
(* holds JSqlNull (SQL NULL) or a jsonb value, written as a record with a  *)
(* type tag t: JNull (the json null), JStr(s), JObj(f) with f a function   *)
(* from keys to jsonb values, JArr(s) with s a sequence.  The elements of  *)
(* a tags array are named by their rank in jsonb's btree order, which is   *)
(* the order DISTINCT sorts them in.                                       *)
(*                                                                         *)
(* Every row carries a non-null provider: the provider scripts set it from *)
(* a module constant (raw_pixel.py line 18).                               *)
(***************************************************************************)
EXTENDS Integers, Sequences, FiniteSets, TLC

VARIABLES
    file,               \* the tsv file: a sequence of lines
    max_rows_to_skip,   \* the loader's remaining budget (sql.py line 88, 106)
    load_successful,    \* sql.py line 94
    pc,                 \* "idle", or the position inside load_local_data_...
    raised,             \* the exception the last call ended with, or "none"
    table_exists,       \* whether the loading table exists
    staging,            \* the loading table, in physical (ctid) order
    catalog,            \* the image table: a set of rows
    now,                \* the clock NOW() reads
    \* history variables, read by the properties only
    file0,              \* the file as the current load call received it
    skip0,              \* max_rows_to_skip as the call received it
    staging0,           \* the loading table when the current call started
    catalog0,           \* the image table when the last operation started
    attempts,           \* bulk_load attempts of the current load call
    cycles,             \* lines deleted from the file by the current call
    deleted,            \* the line numbers deleted, each in the file of its time
    reported,           \* the line numbers the bulk loader reported
    uncleaned,          \* the loading table as the cleaner last received it
    cleaned,            \* whether the current load call ran the cleaner
    lastOp,             \* the last operation that completed
    upsertsInRow,       \* consecutive upserts of the same loading table
    mergedKeys,         \* identity keys of every batch upserted so far
    \* the sub-provider passes (sql.py lines 296-559)
    temp_tables,        \* the temporary lookup tables that exist
    selected,           \* selected_records of the last pass
    updated,            \* foreign ids the UPDATEs of the last pass were run for
    rerun,              \* the last pass followed a run of itself that ended well
    \* the second image table of SpecCommute and the two records it merges
    shadow,
    rowA,
    rowB

vars == << file, max_rows_to_skip, load_successful, pc, raised, table_exists,
           staging, catalog, now, file0, skip0, staging0, catalog0, attempts,
           cycles, deleted, reported, uncleaned, cleaned, lastOp,
           upsertsInRow, mergedKeys, temp_tables, selected, updated, rerun,
           shadow, rowA, rowB >>

\* what the loader, the cleaner and the upsert leave alone
extVars == << temp_tables, selected, updated, rerun, shadow, rowA, rowB >>

loaderVars == << file, max_rows_to_skip, load_successful, file0, skip0,
                 attempts, cycles, deleted, reported >>

(***************************************************************************)
(* Bounds of the model.                                                    *)
(***************************************************************************)
MaxLines == 4       \* lines of a tsv file
MaxSkip == 2        \* largest max_rows_to_skip a call is given
MaxBatch == 2       \* rows of a batch imported from S3
MaxNow == 3         \* upserts in a run of the model (NOW() is 1..MaxNow)
MaxRows == 3        \* rows of the image table a sub-provider pass is given

(***************************************************************************)
(* SQL and jsonb values.                                                   *)
(***************************************************************************)
NULL == "NULL"
FALSE_ == "f"

JSqlNull == [t |-> "sqlnull"]
JMalformed == [t |-> "malformed"]   \* text that is not json
JNull == [t |-> "null"]
JStr(s) == [t |-> "string", v |-> s]
JObj(f) == [t |-> "object", v |-> f]
JArr(s) == [t |-> "array", v |-> s]
EmptyFcn == [k \in {} |-> JNull]

Range(s) == {s[i] : i \in DOMAIN s}

SeqsUpTo(S, n) == UNION {[1..k -> S] : k \in 0..n}

\* COALESCE(a, b) on scalar columns
Coalesce(a, b) == IF a # NULL THEN a ELSE b

\* COALESCE(a, b, c) on jsonb columns
JCoalesce(a, b, c) == IF a # JSqlNull THEN a ELSE IF b # JSqlNull THEN b ELSE c

\* a = b in a WHERE clause: true only when neither side is NULL
SqlEq(a, b) == a # NULL /\ b # NULL /\ a = b

\* md5(text): collisions are not modelled
MD5(x) == IF x = NULL THEN NULL ELSE << "md5", x >>


(***************************************************************************)
(* jsonb functions of the store, as PostgreSQL documents them.             *)
(***************************************************************************)
RECURSIVE JsonbStripNulls(_)
\* jsonb_strip_nulls: strict; drops every object field whose value is the
\* json null, at every depth; nulls that are array elements stay.
JsonbStripNulls(j) ==
    CASE j.t = "object" ->
           JObj([k \in {k \in DOMAIN j.v : j.v[k] # JNull} |->
                    JsonbStripNulls(j.v[k])])
      [] j.t = "array" -> JArr([i \in DOMAIN j.v |-> JsonbStripNulls(j.v[i])])
      [] OTHER -> j

\* a non-array operand of || is taken as a one-element array
AsArray(j) == IF j.t = "array" THEN j.v ELSE << j >>

\* a || b on jsonb: strict; two objects are merged, the right operand's value
\* winning on a shared key; anything else is concatenated as arrays.
JsonbConcat(a, b) ==
    IF a = JSqlNull \/ b = JSqlNull THEN JSqlNull
    ELSE IF a.t = "object" /\ b.t = "object"
         THEN JObj([k \in DOMAIN a.v \cup DOMAIN b.v |->
                      IF k \in DOMAIN b.v THEN b.v[k] ELSE a.v[k]])
         ELSE JArr(AsArray(a) \o AsArray(b))

\* jsonb_array_elements(j): one row per element; strict, so no row for NULL.
\* (It raises on a jsonb value that is no array; tags are arrays or NULL.)
JsonbArrayElements(j) == IF j = JSqlNull THEN << >> ELSE j.v

\* the rank of a tag element in jsonb's order
Rank(x) == x.v

RECURSIVE SortedSeq(_)
SortedSeq(S) ==
    IF S = {} THEN << >>
    ELSE LET m == CHOOSE x \in S : \A y \in S : Rank(x) <= Rank(y)
         IN  << m >> \o SortedSeq(S \ {m})

\* jsonb_agg(DISTINCT x) over the rows xs: NULL over no rows, else the
\* distinct elements, in the order DISTINCT sorted them.
JsonbAggDistinct(xs) ==
    IF Len(xs) = 0 THEN JSqlNull ELSE JArr(SortedSeq(Range(xs)))

(***************************************************************************)
(* Columns.                                                                *)
(***************************************************************************)
\* the columns _newest_non_null is applied to (sql.py lines 240-253)
ScalarCols == { "ingestion_type", "source", "landing_url", "direct_url",
                "thumbnail", "width", "height", "filesize", "license",
                "license_version", "creator", "creator_url", "title",
                "watermarked" }

\* the columns of the loading table (sql.py lines 31-48)
LoadCols == ScalarCols \cup { "foreign_identifier", "provider", "meta_data", "tags" }

TimeCols == { "created_on", "updated_on", "last_synced" }

\* the columns the upsert writes (sql.py lines 206-229)
ImageCols == LoadCols \cup TimeCols \cup { "removed" }

\* the columns the cleaner requires (sql.py lines 146-157)
RequiredCols == << "direct_url", "license", "landing_url", "foreign_identifier" >>

Key(r) == << r["provider"], r["foreign_identifier"] >>

DeleteWhereNullNever(t, column) == t

(***************************************************************************)
(* _clean_intermediate_table_data (sql.py lines 142-170).                  *)
(***************************************************************************)
\* DELETE FROM load_table WHERE column IS NULL
DeleteWhereNull(t, column) == SelectSeq(t, LAMBDA r : r[column] # NULL)

\* the join condition of the dedup DELETE, p1 and p2 being ctids
DedupMatchNe(t, p1, p2) ==
    /\ p1 # p2
    /\ SqlEq(t[p1]["provider"], t[p2]["provider"])
    /\ SqlEq(t[p1]["foreign_identifier"], t[p2]["foreign_identifier"])

DedupMatchGt(t, p1, p2) ==
    /\ p1 > p2
    /\ SqlEq(t[p1]["provider"], t[p2]["provider"])
    /\ SqlEq(t[p1]["foreign_identifier"], t[p2]["foreign_identifier"])

DedupMatch(t, p1, p2) ==
    /\ p1 < p2
    /\ SqlEq(t[p1]["provider"], t[p2]["provider"])
    /\ SqlEq(t[p1]["foreign_identifier"], t[p2]["foreign_identifier"])

RECURSIVE KeepAt(_, _, _)
\* the rows of t at the ctids of keep, from ctid i on, in ctid order
KeepAt(t, keep, i) ==
    IF i > Len(t) THEN << >>
    ELSE (IF i \in keep THEN << t[i] >> ELSE << >>) \o KeepAt(t, keep, i + 1)

\* DELETE FROM load_table p1 USING load_table p2 WHERE ...
DeleteDuplicates(t) ==
    KeepAt(t, {p1 \in DOMAIN t : ~ \E p2 \in DOMAIN t : DedupMatch(t, p1, p2)}, 1)

CleanIntermediateTableData(t) ==
    DeleteDuplicates(
      DeleteWhereNull(
        DeleteWhereNull(
          DeleteWhereNull(
            DeleteWhereNull(t, RequiredCols[1]),
            RequiredCols[2]),
          RequiredCols[3]),
        RequiredCols[4]))

(***************************************************************************)
(* The bulk loader and the file repair (sql.py lines 98-103, 274-293).     *)
(***************************************************************************)
\* the input function of a jsonb column rejects the text
BadLine(l) == l["meta_data"] = JMalformed \/ l["tags"] = JMalformed

BadLines(f) == {i \in DOMAIN f : BadLine(f[i])}

\* COPY stops at the first line it cannot read
FirstBadLine(f) == CHOOSE i \in BadLines(f) : \A j \in BadLines(f) : i <= j

\* str(e) of the InvalidTextRepresentation COPY raises at line n: the lines
\* of the message, each with whether it starts with 'COPY' and the number
\* that follows its first 'line '
CopyErrorMessage(n) ==
    << [copy |-> FALSE, line |-> 0],     \* invalid input syntax for type json
       [copy |-> FALSE, line |-> 0],     \* DETAIL:  Token ... is invalid.
       [copy |-> FALSE, line |-> 1],     \* CONTEXT:  JSON data, line 1: ...
       [copy |-> TRUE, line |-> n] >>    \* COPY <table>, line n, column ...

GetMalformedRowAnyLine(error_msg) ==
    LET k == CHOOSE i \in DOMAIN error_msg :
                /\ error_msg[i].line > 0
                /\ \A j \in DOMAIN error_msg : error_msg[j].line > 0 => i <= j
    IN  error_msg[k].line

\* _get_malformed_row_in_file (sql.py lines 274-283)
GetMalformedRowInFile(error_msg) ==
    LET k == CHOOSE i \in DOMAIN error_msg :
                /\ error_msg[i].copy
                /\ \A j \in DOMAIN error_msg : error_msg[j].copy => i <= j
    IN  error_msg[k].line

RECURSIVE WriteLinesFrom(_, _, _)
WriteLinesFrom(lines, line_number, index) ==
    IF index + 1 > Len(lines) THEN << >>
    ELSE (IF index + 1 # line_number THEN << lines[index + 1] >> ELSE << >>)
           \o WriteLinesFrom(lines, line_number, index + 1)

\* _delete_malformed_row_in_file (sql.py lines 286-293)
DeleteMalformedRowInFile(lines, line_number) ==
    WriteLinesFrom(lines, line_number, 0)

LoopGuardNoCap(successful, budget) == ~ successful

\* the condition of the retry loop (sql.py line 96)
LoopGuard(successful, budget) == ~ successful /\ budget >= 0

FinallyKeeps(budget) == budget

\* finally: max_rows_to_skip = max_rows_to_skip - 1 (sql.py lines 105-106)
Finally(budget) == budget - 1

(***************************************************************************)
(* upsert_records_to_image_table (sql.py lines 172-258).                   *)
(***************************************************************************)
NewestNonNullOldFirst(excluded, old) == Coalesce(old, excluded)

\* _newest_non_null (sql.py lines 178-179)
NewestNonNull(excluded, old) == Coalesce(excluded, old)

\* _merge_jsonb_objects (sql.py lines 181-191)
MergeJsonbObjects(old, excluded) ==
    JCoalesce(JsonbConcat(JsonbStripNulls(old), JsonbStripNulls(excluded)),
              excluded,
              old)

MergeJsonbArraysIncomingOnly(old, excluded) == JCoalesce(excluded, old, old)

\* _merge_jsonb_arrays (sql.py lines 193-201)
MergeJsonbArrays(old, excluded) ==
    JCoalesce(JsonbAggDistinct(JsonbArrayElements(JsonbConcat(old, excluded))),
              excluded,
              old)

\* the row INSERT proposes for the staging row s at time t (lines 206-234)
InsertedRow(s, t) ==
    [c \in ImageCols |->
        CASE c \in TimeCols -> t
          [] c = "removed" -> FALSE_
          [] OTHER -> s[c]]

UpdatedRowNewCreatedOn(old, excluded, t) ==
    [c \in ImageCols |->
        CASE c \in TimeCols -> t
          [] c = "removed" -> FALSE_
          [] c \in ScalarCols -> NewestNonNull(excluded[c], old[c])
          [] c = "meta_data" -> MergeJsonbObjects(old[c], excluded[c])
          [] c = "tags" -> MergeJsonbArrays(old[c], excluded[c])
          [] OTHER -> old[c]]

UpdatedRowKeepsRemoved(old, excluded, t) ==
    [c \in ImageCols |->
        CASE c \in {"updated_on", "last_synced"} -> t
          [] c \in ScalarCols -> NewestNonNull(excluded[c], old[c])
          [] c = "meta_data" -> MergeJsonbObjects(old[c], excluded[c])
          [] c = "tags" -> MergeJsonbArrays(old[c], excluded[c])
          [] OTHER -> old[c]]

UpdatedRowKeepsSource(old, excluded, t) ==
    [c \in ImageCols |->
        CASE c \in {"updated_on", "last_synced"} -> t
          [] c = "removed" -> FALSE_
          [] c = "source" -> old[c]
          [] c \in ScalarCols -> NewestNonNull(excluded[c], old[c])
          [] c = "meta_data" -> MergeJsonbObjects(old[c], excluded[c])
          [] c = "tags" -> MergeJsonbArrays(old[c], excluded[c])
          [] OTHER -> old[c]]

\* DO UPDATE SET ... of the row old, excluded being the proposed row
\* (sql.py lines 236-255)
UpdatedRow(old, excluded, t) ==
    [c \in ImageCols |->
        CASE c \in {"updated_on", "last_synced"} -> t
          [] c = "removed" -> FALSE_
          [] c \in ScalarCols -> NewestNonNull(excluded[c], old[c])
          [] c = "meta_data" -> MergeJsonbObjects(old[c], excluded[c])
          [] c = "tags" -> MergeJsonbArrays(old[c], excluded[c])
          [] OTHER -> old[c]]

ConflictNever(a, b) == FALSE

\* ON CONFLICT (provider, md5(foreign_identifier)): the rows a and b collide
\* in the unique index (sql.py line 235)
Conflict(a, b) ==
    /\ SqlEq(a["provider"], b["provider"])
    /\ SqlEq(MD5(a["foreign_identifier"]), MD5(b["foreign_identifier"]))

\* the statement would update one row twice: PostgreSQL raises
AffectsRowTwice(t) ==
    \E i, j \in DOMAIN t : i # j /\ Conflict(t[i], t[j])

\* the image table after the upsert of the loading table t at time now_:
\* a row of t that collides with a row of the image table updates it, any
\* other row of t is inserted (sql.py lines 230-258)
UpsertRecords(image, t, now_) ==
    LET rows == Range(t)
    IN  {o \in image : \A s \in rows : ~ Conflict(o, s)}
          \cup UNION {{UpdatedRow(o, InsertedRow(s, now_), now_) :
                          s \in {x \in rows : Conflict(o, x)}} : o \in image}
          \cup {InsertedRow(s, now_) :
                   s \in {x \in rows : \A o \in image : ~ Conflict(o, x)}}

(***************************************************************************)
(* Operations.  One call runs at a time (pc = "idle" between calls); the   *)
(* retry loop of load_local_data_to_intermediate_table takes one step per  *)
(* iteration.                                                              *)
(***************************************************************************)
\* the locals of load_local_data_to_intermediate_table and the record of its
\* last call are dropped when another operation starts
ForgetLoadCall ==
    /\ file' = << >>
    /\ max_rows_to_skip' = 0
    /\ load_successful' = FALSE
    /\ file0' = << >>
    /\ skip0' = 0
    /\ attempts' = 0
    /\ cycles' = 0
    /\ deleted' = << >>
    /\ reported' = << >>

\* create_loading_table (sql.py lines 18-81): CREATE TABLE raises when the
\* table exists
CreateLoadingTable ==
    /\ UNCHANGED extVars
    /\ pc = "idle"
    /\ IF table_exists
       THEN /\ raised' = "DuplicateTable"
            /\ UNCHANGED << table_exists, staging >>
       ELSE /\ raised' = "none"
            /\ table_exists' = TRUE
            /\ staging' = << >>
    /\ catalog0' = catalog
    /\ lastOp' = "create_loading_table"
    /\ upsertsInRow' = 0
    /\ staging0' = staging
    /\ uncleaned' = << >>
    /\ cleaned' = FALSE
    /\ ForgetLoadCall
    /\ UNCHANGED << pc, catalog, now, mergedKeys >>

\* drop_load_table (sql.py lines 261-264)
DropLoadTable ==
    /\ UNCHANGED extVars
    /\ pc = "idle"
    /\ IF table_exists
       THEN /\ raised' = "none"
            /\ table_exists' = FALSE
            /\ staging' = << >>
       ELSE /\ raised' = "UndefinedTable"
            /\ UNCHANGED << table_exists, staging >>
    /\ catalog0' = catalog
    /\ lastOp' = "drop_load_table"
    /\ upsertsInRow' = 0
    /\ staging0' = staging
    /\ uncleaned' = << >>
    /\ cleaned' = FALSE
    /\ ForgetLoadCall
    /\ UNCHANGED << pc, catalog, now, mergedKeys >>

\* load_local_data_to_intermediate_table, lines 84-94: the call, with the
\* file tsv_file_name names holding the lines f
LoadLocalCall(f, skip) ==
    /\ UNCHANGED extVars
    /\ pc = "idle"
    /\ file' = f
    /\ max_rows_to_skip' = skip
    /\ load_successful' = FALSE
    /\ pc' = "loop"
    /\ raised' = "none"
    /\ file0' = f
    /\ skip0' = skip
    /\ staging0' = staging
    /\ catalog0' = catalog
    /\ attempts' = 0
    /\ cycles' = 0
    /\ deleted' = << >>
    /\ reported' = << >>
    /\ cleaned' = FALSE
    /\ upsertsInRow' = 0
    /\ UNCHANGED << table_exists, staging, catalog, now, uncleaned, lastOp,
                    mergedKeys >>

\* lines 96-106: one iteration of the retry loop.  bulk_load is COPY: it
\* loads every line or, when there is a line it cannot read, none; n is the
\* line its error message names then.
BulkLoadAttemptAt(n) ==
    /\ UNCHANGED extVars
    /\ pc = "loop"
    /\ LoopGuard(load_successful, max_rows_to_skip)
    /\ attempts' = attempts + 1
    /\ IF ~ table_exists
       THEN \* another exception than the one caught: it leaves the call
            /\ raised' = "UndefinedTable"
            /\ pc' = "idle"
            /\ lastOp' = "load_local"
            /\ UNCHANGED << file, load_successful, staging, cycles, deleted,
                            reported >>
       ELSE IF BadLines(file) = {}
       THEN /\ staging' = staging \o file
            /\ load_successful' = TRUE
            /\ UNCHANGED << file, cycles, deleted, reported, raised, pc, lastOp >>
       ELSE LET line_number == GetMalformedRowInFile(CopyErrorMessage(n))
            IN  /\ file' = DeleteMalformedRowInFile(file, line_number)
                /\ cycles' = cycles + 1
                /\ deleted' = Append(deleted, line_number)
                /\ reported' = Append(reported, n)
                /\ UNCHANGED << load_successful, staging, raised, pc, lastOp >>
    /\ max_rows_to_skip' = Finally(max_rows_to_skip)
    /\ UNCHANGED << table_exists, catalog, now, file0, skip0, staging0,
                    catalog0, uncleaned, cleaned, upsertsInRow, mergedKeys >>

\* the attempt as PostgreSQL answers it: COPY names the first line it
\* cannot read
BulkLoadAttempt ==
    BulkLoadAttemptAt(IF BadLines(file) = {} THEN 0 ELSE FirstBadLine(file))

\* lines 108-110: the loop ended without a load
LoadRaise ==
    /\ UNCHANGED extVars
    /\ pc = "loop"
    /\ ~ LoopGuard(load_successful, max_rows_to_skip)
    /\ ~ load_successful
    /\ raised' = "InvalidTextRepresentation"
    /\ pc' = "idle"
    /\ lastOp' = "load_local"
    /\ UNCHANGED << table_exists, staging, catalog, now, staging0, catalog0,
                    uncleaned, cleaned, upsertsInRow, mergedKeys >>
    /\ UNCHANGED loaderVars

\* line 112: the loop ended with the file loaded
LoadClean ==
    /\ UNCHANGED extVars
    /\ pc = "loop"
    /\ ~ LoopGuard(load_successful, max_rows_to_skip)
    /\ load_successful
    /\ uncleaned' = staging
    /\ staging' = CleanIntermediateTableData(staging)
    /\ cleaned' = TRUE
    /\ pc' = "idle"
    /\ lastOp' = "load_local"
    /\ UNCHANGED << raised, table_exists, catalog, now, staging0, catalog0,
                    upsertsInRow, mergedKeys >>
    /\ UNCHANGED loaderVars

\* load_s3_data_to_intermediate_table (sql.py lines 115-139), the object at
\* s3_key holding the lines f: the import is one statement, and an import
\* that raises leaves before the cleaner
LoadS3Data(f) ==
    /\ UNCHANGED extVars
    /\ pc = "idle"
    /\ staging0' = staging
    /\ catalog0' = catalog
    /\ IF ~ table_exists
       THEN /\ raised' = "UndefinedTable"
            /\ cleaned' = FALSE
            /\ UNCHANGED << staging, uncleaned >>
       ELSE IF BadLines(f) # {}
       THEN /\ raised' = "InvalidTextRepresentation"
            /\ cleaned' = FALSE
            /\ UNCHANGED << staging, uncleaned >>
       ELSE /\ raised' = "none"
            /\ uncleaned' = staging \o f
            /\ staging' = CleanIntermediateTableData(staging \o f)
            /\ cleaned' = TRUE
    /\ lastOp' = "load_s3"
    /\ upsertsInRow' = 0
    /\ ForgetLoadCall
    /\ UNCHANGED << pc, table_exists, catalog, now, mergedKeys >>

\* upsert_records_to_image_table (sql.py lines 172-258): one statement
UpsertRecordsToImageTable ==
    /\ UNCHANGED extVars
    /\ pc = "idle"
    /\ now <= MaxNow
    /\ catalog0' = catalog
    /\ IF ~ table_exists
       THEN /\ raised' = "UndefinedTable"
            /\ UNCHANGED << catalog, mergedKeys >>
       ELSE IF AffectsRowTwice(staging)
       THEN /\ raised' = "CardinalityViolation"
            /\ UNCHANGED << catalog, mergedKeys >>
       ELSE /\ raised' = "none"
            /\ catalog' = UpsertRecords(catalog, staging, now)
            /\ mergedKeys' = mergedKeys \cup {Key(s) : s \in Range(staging)}
    /\ now' = now + 1
    /\ lastOp' = "upsert"
    /\ upsertsInRow' = upsertsInRow + 1
    /\ staging0' = staging
    /\ ForgetLoadCall
    /\ UNCHANGED << pc, table_exists, staging, uncleaned, cleaned >>

(***************************************************************************)
(* Inputs: the lines of a tsv file, one loading-table row each.            *)
(***************************************************************************)
\* a row as raw_pixel.py writes it (lines 107-133): provider and source
\* "rawpixel", license cc0 1.0, the other columns as given or NULL
BaseRow ==
    [c \in LoadCols |->
        CASE c \in {"provider", "source"} -> "rawpixel"
          [] c = "foreign_identifier" -> "id1"
          [] c = "landing_url" -> "landing1"
          [] c = "direct_url" -> "url1"
          [] c = "license" -> "cc0"
          [] c = "license_version" -> "1.0"
          [] c \in {"meta_data", "tags"} -> JSqlNull
          [] OTHER -> NULL]

With(r, c, x) == [r EXCEPT ![c] = x]

\* no pass has run
PassInit ==
    /\ temp_tables = {}
    /\ selected = << >>
    /\ updated = {}
    /\ rerun = FALSE

\* there is no second image table
ShadowInit ==
    /\ shadow = {}
    /\ rowA = BaseRow
    /\ rowB = BaseRow

ExtInit == PassInit /\ ShadowInit

\* the lines the loader and the cleaner are run on: rows with either
\* identifier, a second row of id1 that differs in its title, rows that lack
\* one required column each, and a line whose meta_data is not json
LoadLines ==
    { With(BaseRow, "title", "a"),
      With(BaseRow, "title", "b"),
      With(BaseRow, "foreign_identifier", "id2"),
      With(BaseRow, "direct_url", NULL),
      With(BaseRow, "license", NULL),
      With(BaseRow, "landing_url", NULL),
      With(BaseRow, "foreign_identifier", NULL),
      With(BaseRow, "meta_data", JMalformed) }

\* the image table the loader runs beside: one row, merged earlier
SeedCatalog == { InsertedRow(With(BaseRow, "title", "a"), 0) }

(***************************************************************************)
(* SpecLoad: one call of load_local_data_to_intermediate_table on a fresh  *)
(* loading table, for every file of at most MaxLines lines and every       *)
(* max_rows_to_skip in 0..MaxSkip.                                         *)
(***************************************************************************)
LoadInitOver(files) ==
    /\ file \in files
    /\ max_rows_to_skip \in 0..MaxSkip
    /\ load_successful = FALSE
    /\ pc = "loop"
    /\ raised = "none"
    /\ table_exists = TRUE
    /\ staging = << >>
    /\ catalog = SeedCatalog
    /\ now = 1
    /\ file0 = file
    /\ skip0 = max_rows_to_skip
    /\ staging0 = << >>
    /\ catalog0 = SeedCatalog
    /\ attempts = 0
    /\ cycles = 0
    /\ deleted = << >>
    /\ reported = << >>
    /\ uncleaned = << >>
    /\ cleaned = FALSE
    /\ lastOp = "create_loading_table"
    /\ upsertsInRow = 0
    /\ mergedKeys = {}
    /\ ExtInit

LoadInit == LoadInitOver(SeqsUpTo(LoadLines, MaxLines))

LoadNext == BulkLoadAttempt \/ LoadRaise \/ LoadClean

SpecLoad == LoadInit /\ [][LoadNext]_vars

(***************************************************************************)
(* Properties of the loader and the cleaner.                               *)
(***************************************************************************)
GoodLines(f) == SelectSeq(f, LAMBDA l : ~ BadLine(l))

Malformed0 == Cardinality(BadLines(file0))

\* a call of load_local_data_to_intermediate_table on an existing loading
\* table has returned or raised
LoadEnded == pc = "idle" /\ lastOp = "load_local" /\ raised # "UndefinedTable"

\* the cleaner has just run, and staging is what it left
CleanerRan == pc = "idle" /\ cleaned /\ lastOp \in {"load_local", "load_s3"}

Complete(r) == \A i \in DOMAIN RequiredCols : r[RequiredCols[i]] # NULL

\* the ctids of the complete rows of t with identity key k
Group(t, k) == {i \in DOMAIN t : Complete(t[i]) /\ Key(t[i]) = k}

Min(S) == CHOOSE x \in S : \A y \in S : x <= y
Max(S) == CHOOSE x \in S : \A y \in S : x >= y

\* C2 as stated: of the staging rows that share an identity key, the cleaner
\* keeps the one loaded first (lowest ctid).
C2_KeepsEarliest ==
    CleanerRan =>
      \A i \in DOMAIN staging :
         staging[i] = uncleaned[Min(Group(uncleaned, Key(staging[i])))]

\* C2, amended: of the staging rows that share an identity key, the cleaner
\* keeps the one loaded last (highest ctid) and discards the earlier ones.
C2_KeepsLatest ==
    CleanerRan =>
      \A i \in DOMAIN staging :
         staging[i] = uncleaned[Max(Group(uncleaned, Key(staging[i])))]

C2_Witness ==
    /\ CleanerRan
    /\ \E i, j \in DOMAIN uncleaned :
          /\ i < j
          /\ Complete(uncleaned[i]) /\ Complete(uncleaned[j])
          /\ Key(uncleaned[i]) = Key(uncleaned[j])
          /\ uncleaned[i] # uncleaned[j]
          /\ \E n \in DOMAIN staging : staging[n] = uncleaned[j]

\* C3: after the cleaner no row lacks direct_url, license, landing_url or
\* foreign_identifier, and every identity key that had a complete row has
\* exactly one row left.
C3_CleanerPostcondition ==
    CleanerRan =>
      /\ \A i \in DOMAIN staging : Complete(staging[i])
      /\ \A p \in DOMAIN uncleaned :
            Complete(uncleaned[p]) =>
               Cardinality({i \in DOMAIN staging :
                               Key(staging[i]) = Key(uncleaned[p])}) = 1

C3_Witness ==
    /\ CleanerRan
    /\ \E p \in DOMAIN uncleaned : ~ Complete(uncleaned[p])
    /\ \E k \in {Key(uncleaned[p]) : p \in DOMAIN uncleaned} :
          Cardinality(Group(uncleaned, k)) >= 3
    /\ Len(staging) = 1

\* C4: a file with k <= max_rows_to_skip malformed lines is loaded after
\* exactly k skip-and-retry cycles; every cycle deletes the line the bulk
\* loader reported and no other, the remaining lines keep their order, and
\* the loading table receives exactly the well-formed lines, each once.
C4_SkipAndRetry ==
    Malformed0 <= skip0 =>
      /\ pc = "loop" =>
            /\ deleted = reported
            /\ Len(file) = Len(file0) - cycles
            /\ GoodLines(file) = GoodLines(file0)
            /\ Cardinality(BadLines(file)) = Malformed0 - cycles
      /\ LoadEnded =>
            /\ raised = "none"
            /\ load_successful
            /\ cycles = Malformed0
            /\ attempts = Malformed0 + 1
            /\ deleted = reported
            /\ file = GoodLines(file0)
            /\ uncleaned = staging0 \o GoodLines(file0)

C4_Witness ==
    /\ LoadEnded
    /\ Malformed0 = 1
    /\ skip0 >= 1
    /\ Len(file0) = 3
    /\ BadLine(file0[2])
    /\ cycles = 1
    /\ Len(uncleaned) = 2

\* the lines the current call has deleted from the file
LinesRemoved == Len(file0) - Len(file)

\* C5 as stated: a call never deletes more than max_rows_to_skip lines
C5_RemovedWithinCap == pc = "loop" \/ LoadEnded => LinesRemoved <= skip0

\* C6: with more than max_rows_to_skip malformed lines the call raises
\* InvalidTextRepresentation, the cleaner is not run, and the image table
\* (and the loading table) is as it was before the call.
C6_CapExceededIsFatal ==
    LoadEnded /\ Malformed0 > skip0 =>
      /\ raised = "InvalidTextRepresentation"
      /\ ~ load_successful
      /\ ~ cleaned
      /\ staging = staging0
      /\ catalog = catalog0

C6_Witness ==
    /\ LoadEnded
    /\ Malformed0 > skip0
    /\ skip0 >= 1
    /\ raised = "InvalidTextRepresentation"
    /\ catalog = catalog0 /\ catalog # {}

(***************************************************************************)
(* The pipeline.  An ingestion run is serial (spec.md section 5): create   *)
(* the loading table, load one file into it, upsert it (once or again),    *)
(* drop it; a run that raised goes on to the drop only.  The model starts  *)
(* from an empty image table and no loading table.                         *)
(***************************************************************************)
\* nothing has run, there is no loading table, the image table is image
Started(image) ==
    /\ file = << >>
    /\ max_rows_to_skip = 0
    /\ load_successful = FALSE
    /\ pc = "idle"
    /\ raised = "none"
    /\ table_exists = FALSE
    /\ staging = << >>
    /\ catalog = image
    /\ now = 1
    /\ file0 = << >>
    /\ skip0 = 0
    /\ staging0 = << >>
    /\ catalog0 = image
    /\ attempts = 0
    /\ cycles = 0
    /\ deleted = << >>
    /\ reported = << >>
    /\ uncleaned = << >>
    /\ cleaned = FALSE
    /\ lastOp = "none"
    /\ upsertsInRow = 0
    /\ mergedKeys = {Key(r) : r \in image}
    /\ PassInit

StartWith(image) == Started(image) /\ ShadowInit

PipelineInit == StartWith({})

\* where the run stands
MayCreate == ~ table_exists
MayLoad == table_exists /\ lastOp = "create_loading_table"
MayUpsert ==
    /\ table_exists
    /\ raised = "none"
    /\ lastOp \in {"load_local", "load_s3", "upsert"}
MayDrop == table_exists

Create == MayCreate /\ CreateLoadingTable
Upsert == MayUpsert /\ UpsertRecordsToImageTable
Drop == MayDrop /\ DropLoadTable

\* Spec: files of at most MaxBatch lines over rows of two identifiers, a
\* row without identifier and a malformed line, loaded from S3 or from a
\* local file.
PipelineLines ==
    { With(BaseRow, "title", "a"),
      With(BaseRow, "foreign_identifier", "id2"),
      With(BaseRow, "foreign_identifier", NULL),
      With(BaseRow, "meta_data", JMalformed) }

PipelineFiles == SeqsUpTo(PipelineLines, MaxBatch)

LoadS3 == MayLoad /\ \E f \in PipelineFiles : LoadS3Data(f)

LoadLocal ==
    MayLoad /\ \E f \in PipelineFiles, skip \in 0..MaxSkip : LoadLocalCall(f, skip)

Next ==
    \/ Create
    \/ LoadS3
    \/ LoadLocal
    \/ BulkLoadAttempt
    \/ LoadRaise
    \/ LoadClean
    \/ Upsert
    \/ Drop

Spec == PipelineInit /\ [][Next]_vars

\* SpecScalar: one-row batches of one identity key whose scalar columns are
\* all "a" or all "b", with none, one or all of the optional ones NULL.
OptionalCols == ScalarCols \ {"landing_url", "direct_url", "license"}

ScalarRow(nulls, x) ==
    [c \in LoadCols |->
        IF c \in ScalarCols THEN (IF c \in nulls THEN NULL ELSE x)
        ELSE BaseRow[c]]

ScalarRows ==
    {ScalarRow(nulls, x) :
        nulls \in {{}, OptionalCols} \cup {{c} : c \in OptionalCols},
        x \in {"a", "b"}}

LoadScalarBatch == MayLoad /\ \E r \in ScalarRows : LoadS3Data(<< r >>)

ScalarNext == Create \/ LoadScalarBatch \/ Upsert \/ Drop

SpecScalar == PipelineInit /\ [][ScalarNext]_vars

\* SpecJson: one-row batches of one identity key that differ in meta_data or
\* in tags.  Strings are named by their rank in jsonb's order.
MetaValues ==
    { JSqlNull,
      JObj(EmptyFcn),
      JObj([k \in {"k1"} |-> JStr(1)]),
      JObj([k \in {"k1"} |-> JStr(2)]),
      JObj([k \in {"k1"} |-> JNull]),
      JObj([k \in {"k2"} |-> JStr(1)]) }

TagsValues ==
    { JSqlNull,
      JArr(<< >>),
      JArr(<< JStr(1) >>),
      JArr(<< JStr(2) >>),
      JArr(<< JStr(1), JStr(2) >>),
      JArr(<< JStr(1), JStr(1) >>) }

JsonRows ==
    {With(BaseRow, "meta_data", m) : m \in MetaValues}
       \cup {With(BaseRow, "tags", x) : x \in TagsValues}

LoadJsonBatch == MayLoad /\ \E r \in JsonRows : LoadS3Data(<< r >>)

JsonNext == Create \/ LoadJsonBatch \/ Upsert \/ Drop

SpecJson == PipelineInit /\ [][JsonNext]_vars

\* SpecRequired: files of at most MaxBatch lines over a complete row, the
\* four rows that leave one of the required columns NULL and a malformed
\* line, loaded from S3 or from a local file.
RequiredLines ==
    { With(BaseRow, "title", "a"), With(BaseRow, "meta_data", JMalformed) }
       \cup {With(BaseRow, RequiredCols[i], NULL) : i \in DOMAIN RequiredCols}

RequiredFiles == SeqsUpTo(RequiredLines, MaxBatch)

LoadS3Required == MayLoad /\ \E f \in RequiredFiles : LoadS3Data(f)

LoadLocalRequired ==
    MayLoad /\ \E f \in RequiredFiles, skip \in 0..MaxSkip : LoadLocalCall(f, skip)

RequiredNext ==
    \/ Create
    \/ LoadS3Required
    \/ LoadLocalRequired
    \/ BulkLoadAttempt
    \/ LoadRaise
    \/ LoadClean
    \/ Upsert
    \/ Drop

SpecRequired == PipelineInit /\ [][RequiredNext]_vars

\* SpecRemoved: the pipeline over an image table that holds rows of the two
\* identifiers from the start, each soft-deleted (removed true) or not.
\* Nothing in the loader sets removed to true; that is done to the image
\* table from outside.
SoftDeleted(r) == [r EXCEPT !["removed"] = "t"]

RemovedRows ==
    LET r1 == InsertedRow(With(BaseRow, "title", "a"), 0)
        r2 == InsertedRow(With(BaseRow, "foreign_identifier", "id2"), 0)
    IN  {r1, r2, SoftDeleted(r1), SoftDeleted(r2)}

RemovedCatalogs ==
    {c \in SUBSET RemovedRows : \A r1, r2 \in c : Key(r1) = Key(r2) => r1 = r2}

RemovedInit == \E image \in RemovedCatalogs : StartWith(image)

RemovedNext == Create \/ LoadS3 \/ Upsert \/ Drop

SpecRemoved == RemovedInit /\ [][RemovedNext]_vars

(***************************************************************************)
(* Properties of the upsert.                                               *)
(***************************************************************************)
\* the last operation was an upsert that ran to its end: catalog0 is the
\* image table before it, staging the batch, now - 1 the time NOW() gave
Upserted == pc = "idle" /\ lastOp = "upsert" /\ raised = "none"

MergeTime == now - 1

\* the pairs (existing row, staging row) the last upsert merged
MergedPairs ==
    {<< o, s >> \in catalog0 \X Range(staging) : Key(o) = Key(s)}

RowsOf(image, k) == {r \in image : Key(r) = k}

WithoutSyncTimes(r) == [c \in ImageCols \ {"updated_on", "last_synced"} |-> r[c]]

\* C1 as stated: upserting the same batch a second time changes no column
\* of any image row but updated_on and last_synced.
C1_RemergeChangesNothing ==
    Upserted /\ upsertsInRow >= 2 =>
      {WithoutSyncTimes(r) : r \in catalog} = {WithoutSyncTimes(r) : r \in catalog0}

\* C7: merging a staging row into the existing row of its key gives every
\* scalar column the incoming value when that is not NULL and leaves it as
\* it was otherwise.
C7_ScalarsCoalesceIncoming ==
    Upserted =>
      \A p \in MergedPairs :
         /\ RowsOf(catalog, Key(p[1])) # {}
         /\ \A n \in RowsOf(catalog, Key(p[1])) :
               \A c \in ScalarCols :
                  n[c] = IF p[2][c] # NULL THEN p[2][c] ELSE p[1][c]

C7_Witness ==
    /\ Upserted
    /\ \E p \in MergedPairs, c, d \in ScalarCols :
          /\ p[2][c] = NULL /\ p[1][c] # NULL
          /\ p[2][d] # NULL /\ p[1][d] # NULL /\ p[2][d] # p[1][d]
          /\ \E n \in RowsOf(catalog, Key(p[1])) : n[c] = p[1][c] /\ n[d] = p[2][d]

\* the top-level keys of a meta_data value; none when it is NULL
MetaKeys(m) == IF m.t = "object" THEN DOMAIN m.v ELSE {}

\* C8 as stated: after a merge a key that only the existing meta_data has
\* (with a value that is not null) is there with its value, a key of both
\* has the incoming value (when that is not null), and no key of the result
\* has the value null.
C8_MetaShallowMergeNoNulls ==
    Upserted =>
      \A p \in MergedPairs :
         \A n \in RowsOf(catalog, Key(p[1])) :
            LET old == p[1]["meta_data"]
                inc == p[2]["meta_data"]
                new == n["meta_data"]
            IN  /\ \A k \in MetaKeys(old) \ MetaKeys(inc) :
                      old.v[k] # JNull => k \in MetaKeys(new) /\ new.v[k] = old.v[k]
                /\ \A k \in MetaKeys(old) \cap MetaKeys(inc) :
                      inc.v[k] # JNull => k \in MetaKeys(new) /\ new.v[k] = inc.v[k]
                /\ \A k \in MetaKeys(new) : new.v[k] # JNull

\* the elements of a tags value; none when it is NULL
TagList(x) == IF x.t = "array" THEN x.v ELSE << >>

\* C9 as stated: after a merge the tags list holds every element of the
\* existing and of the incoming tags exactly once.
C9_TagsAreTheSetUnion ==
    Upserted =>
      \A p \in MergedPairs :
         \A n \in RowsOf(catalog, Key(p[1])) :
            LET union == Range(TagList(p[1]["tags"])) \cup Range(TagList(p[2]["tags"]))
                new == TagList(n["tags"])
            IN  /\ Range(new) = union
                /\ Len(new) = Cardinality(union)

\* C10: the image table holds exactly one row for every identity key that a
\* merged batch carried; an upsert inserts a row for a key that had none,
\* updates the one row of a key that had one, and deletes no row.
C10_OneRowPerMergedKey ==
    /\ \A r1, r2 \in catalog : Key(r1) = Key(r2) => r1 = r2
    /\ {Key(r) : r \in catalog} = mergedKeys
    /\ Upserted =>
          /\ {Key(r) : r \in catalog0} \subseteq {Key(r) : r \in catalog}
          /\ Cardinality(catalog) =
                Cardinality(catalog0)
                  + Cardinality({Key(s) : s \in Range(staging)}
                                   \ {Key(o) : o \in catalog0})
          /\ \A n \in catalog :
                IF \E o \in catalog0 : Key(o) = Key(n)
                THEN \E o \in catalog0 :
                        /\ Key(o) = Key(n)
                        /\ n["created_on"] = o["created_on"]
                        /\ (\E s \in Range(staging) : Key(s) = Key(n))
                              \/ n = o
                ELSE /\ n["created_on"] = MergeTime
                     /\ \E s \in Range(staging) : Key(s) = Key(n)

C10_Witness ==
    /\ Upserted
    /\ Cardinality(catalog) = 2
    /\ \E o \in catalog0, s \in Range(staging) : Key(o) = Key(s)
    /\ \E s \in Range(staging) : \A o \in catalog0 : Key(o) # Key(s)

\* what a step keeps of the row o of the image table: a key its meta_data
\* holds with a value that is not null is in the meta_data of the row of
\* that identity key afterwards, with its value when the step merged no
\* meta_data that carries the key, with the incoming value when the step
\* merged one that carries it with a value that is not null; and every tag
\* of o is a tag afterwards
KeepsKeysAndTags(o) ==
    /\ RowsOf(catalog', Key(o)) # {}
    /\ \A n \in RowsOf(catalog', Key(o)) :
          LET old == o["meta_data"]
              new == n["meta_data"]
              incs == IF lastOp' = "upsert" /\ raised' = "none"
                      THEN {r["meta_data"] : r \in RowsOf(Range(staging), Key(o))}
                      ELSE {}
          IN  /\ \A k \in MetaKeys(old) :
                    old.v[k] # JNull =>
                       /\ k \in MetaKeys(new)
                       /\ new.v[k] # JNull
                       /\ (\A inc \in incs : k \notin MetaKeys(inc)) =>
                             new.v[k] = old.v[k]
                       /\ \A inc \in incs :
                             k \in MetaKeys(inc) /\ inc.v[k] # JNull =>
                                new.v[k] = inc.v[k]
              /\ Range(TagList(o["tags"])) \subseteq Range(TagList(n["tags"]))

\* C11: over any sequence of merges meta_data and tags only grow: no step
\* takes a key with a value that is not null or a tag from a row of the
\* image table, whether the incoming meta_data and tags are NULL, empty or
\* other values; a key the incoming meta_data carries with a value that is
\* not null takes that value.
C11_MergeOnlyEnriches == [][\A o \in catalog : KeepsKeysAndTags(o)]_vars

\* a row with a key and a row with a tag have each been merged with a row
\* whose meta_data and tags are NULL, and the key and the tag are still there
C11_Witness ==
    /\ Upserted
    /\ upsertsInRow = 1
    /\ \E p \in MergedPairs :
          /\ p[2]["meta_data"] = JSqlNull /\ p[2]["tags"] = JSqlNull
          /\ \/ "k1" \in MetaKeys(p[1]["meta_data"]) /\ p[1]["meta_data"].v["k1"] # JNull
             \/ Len(TagList(p[1]["tags"])) = 2
          /\ \E n \in RowsOf(catalog, Key(p[1])) :
                /\ n["meta_data"] = p[1]["meta_data"]
                /\ n["tags"] = p[1]["tags"]

\* C12: in every state no row of the image table has a NULL direct_url,
\* license, landing_url or foreign_identifier, whatever loads from S3 or
\* from a local file, cleanings and upserts have run.
C12_RequiredNeverNull ==
    \A r \in catalog : \A i \in DOMAIN RequiredCols : r[RequiredCols[i]] # NULL

\* a batch that held a complete row and a row with a NULL required column
\* has been loaded, cleaned and upserted into the image table
C12_Witness ==
    /\ Upserted
    /\ cleaned
    /\ \E i \in DOMAIN uncleaned, j \in DOMAIN RequiredCols :
          uncleaned[i][RequiredCols[j]] = NULL
    /\ \E r \in catalog : r["updated_on"] = MergeTime

\* C13: an upsert gives every row of the image table whose identity key the
\* batch carries the merge time as updated_on and last_synced; created_on
\* keeps the value it had when the row existed and is the merge time when
\* the upsert inserted the row; a row whose key the batch does not carry
\* keeps its three times.
C13_MergeTimes ==
    Upserted =>
      \A n \in catalog :
         IF \E s \in Range(staging) : Key(s) = Key(n)
         THEN /\ n["updated_on"] = MergeTime
              /\ n["last_synced"] = MergeTime
              /\ IF RowsOf(catalog0, Key(n)) # {}
                 THEN \A o \in RowsOf(catalog0, Key(n)) :
                         n["created_on"] = o["created_on"]
                 ELSE n["created_on"] = MergeTime
         ELSE \E o \in RowsOf(catalog0, Key(n)) :
                 \A c \in TimeCols : n[c] = o[c]

\* a row inserted by an earlier upsert has been merged again
C13_Witness ==
    /\ Upserted
    /\ \E p \in MergedPairs :
          /\ p[1]["created_on"] < MergeTime
          /\ p[1]["updated_on"] < MergeTime
          /\ \E n \in RowsOf(catalog, Key(p[1])) :
                /\ n["created_on"] = p[1]["created_on"]
                /\ n["updated_on"] = MergeTime
                /\ n["last_synced"] = MergeTime

\* C14: after an upsert every row of the image table whose identity key the
\* batch carries has removed false, whatever it was before, and every other
\* row has the removed it had.
C14_MergedRowsNotRemoved ==
    Upserted =>
      \A n \in catalog :
         IF \E s \in Range(staging) : Key(s) = Key(n)
         THEN n["removed"] = FALSE_
         ELSE \E o \in RowsOf(catalog0, Key(n)) : n["removed"] = o["removed"]

\* of two soft-deleted rows the batch carried one: it is no longer removed,
\* the other still is
C14_Witness ==
    /\ Upserted
    /\ \E p \in MergedPairs :
          /\ p[1]["removed"] = "t"
          /\ \E n \in RowsOf(catalog, Key(p[1])) : n["removed"] = FALSE_
    /\ \E o \in catalog0 :
          /\ o["removed"] = "t"
          /\ \A s \in Range(staging) : Key(s) # Key(o)
          /\ o \in catalog

(***************************************************************************)
(* The sub-provider passes (sql.py lines 296-559).  Each pass looks up a   *)
(* sub-provider for rows of one provider and writes it to their source.    *)
(* The lookup tables are constants of provider_details.py; the tables here *)
(* stand for them: two sub-providers each, no user id, marker or unit code *)
(* under two sub-providers.                                                *)
(***************************************************************************)
FLICKR_DEFAULT_PROVIDER == "flickr"
EUROPEANA_DEFAULT_PROVIDER == "europeana"
SMITHSONIAN_DEFAULT_PROVIDER == "smithsonian"

\* sub-provider -> the user ids of its accounts
FLICKR_SUB_PROVIDERS ==
    [nasa |-> {"nasa_user"}, bio_diversity |-> {"bhl_user"}]

\* FLICKR_PHOTO_URL_BASE + user_id, for the user ids of the table
PhotoUrl ==
    [nasa_user |-> "flickr.com/photos/nasa_user",
     bhl_user |-> "flickr.com/photos/bhl_user"]

\* sub-provider -> the dataProvider name that marks it
EUROPEANA_SUB_PROVIDERS ==
    [wellcome_collection |-> "Wellcome Collection",
     nationalmuseum |-> "Nationalmuseum"]

\* sub-provider -> its unit codes
SMITHSONIAN_SUB_PROVIDERS ==
    [natural_history |-> {"NMNH"}, air_and_space |-> {"NASM"}]

\* j -> key on jsonb: the value under key, NULL when j is no object or has
\* no such key
JsonbGet(j, key) ==
    IF j.t = "object" THEN (IF key \in DOMAIN j.v THEN j.v[key] ELSE JSqlNull)
    ELSE JSqlNull

\* j ->> key: the value as text, NULL for the json null; a string comes
\* without its quotes, anything else as its json text
JsonbGetText(j, key) ==
    LET x == JsonbGet(j, key)
    IN  CASE x = JSqlNull \/ x = JNull -> JSqlNull
          [] x.t = "string" -> [t |-> "text", v |-> x.v]
          [] OTHER -> [t |-> "jsontext", v |-> x]

\* j ? s: s is a key of the object j, an element of the array j, or the
\* string j; not true on NULL
JsonbExists(j, s) ==
    CASE j.t = "object" -> s \in DOMAIN j.v
      [] j.t = "array" -> \E i \in DOMAIN j.v : j.v[i] = JStr(s)
      [] j.t = "string" -> j.v = s
      [] OTHER -> FALSE

\* json.loads of a text the store returned; a bare string is no json text
JsonLoads(x) == IF x.t = "jsontext" THEN x.v ELSE [t |-> "JSONDecodeError"]

\* the strings of a json list, as Python's "in" tests them
ListItems(j) == {j.v[i].v : i \in {i \in DOMAIN j.v : j.v[i].t = "string"}}

\* every order a set of result rows can come in: the SELECTs have no ORDER BY
Orders(S) == {q \in [1..Cardinality(S) -> S] : Range(q) = S}

\* x in j for a json list or object j that json.loads returned
PyIn(x, j) ==
    CASE j.t = "array" -> x \in ListItems(j)
      [] j.t = "object" -> x \in DOMAIN j.v
      [] OTHER -> FALSE

UpdateSourceAndTime(image, default_provider, foreign_id, sub_provider) ==
    {IF /\ SqlEq(r["provider"], default_provider)
        /\ SqlEq(MD5(r["foreign_identifier"]), MD5(foreign_id))
     THEN [r EXCEPT !["source"] = sub_provider, !["updated_on"] = @ + 1]
     ELSE r : r \in image}

\* UPDATE image SET source = sub_provider WHERE provider = default_provider
\* AND MD5(foreign_identifier) = MD5(foreign_id): sql.py lines 377-388,
\* 490-501, 548-559.  Each is a statement of its own, committed when run.
UpdateSource(image, default_provider, foreign_id, sub_provider) ==
    {IF /\ SqlEq(r["provider"], default_provider)
        /\ SqlEq(MD5(r["foreign_identifier"]), MD5(foreign_id))
     THEN [r EXCEPT !["source"] = sub_provider]
     ELSE r : r \in image}

\* what a pass's loop over selected_records ends with
Ended(image, exception, done) ==
    [image |-> image, raised |-> exception, updated |-> done]

\* _create_temp_flickr_sub_prov_table (lines 296-345): the rows inserted
FlickrTempTable ==
    {[creator_url |-> PhotoUrl[user_id], sub_provider |-> sub_prov] :
        << sub_prov, user_id >> \in
           {p \in (DOMAIN FLICKR_SUB_PROVIDERS) \X (DOMAIN PhotoUrl) :
               p[2] \in FLICKR_SUB_PROVIDERS[p[1]]}}

\* select_query of update_flickr_sub_providers (lines 356-369)
FlickrSelect(image) ==
    {[foreign_id |-> p[1]["foreign_identifier"], sub_provider |-> p[2].sub_provider] :
        p \in {q \in image \X FlickrTempTable :
                  /\ SqlEq(q[1]["creator_url"], q[2].creator_url)
                  /\ SqlEq(q[1]["provider"], FLICKR_DEFAULT_PROVIDER)}}

RECURSIVE FlickrLoop(_, _, _)
\* for row in selected_records (lines 374-388)
FlickrLoop(image, recs, done) ==
    IF recs = << >> THEN Ended(image, "none", done)
    ELSE LET row == Head(recs)
         IN  FlickrLoop(UpdateSource(image, FLICKR_DEFAULT_PROVIDER,
                                     row.foreign_id, row.sub_provider),
                        Tail(recs), done \cup {row.foreign_id})

\* _create_temp_europeana_sub_prov_table (lines 396-443): the rows inserted
EuropeanaTempTable ==
    {[data_provider |-> EUROPEANA_SUB_PROVIDERS[sub_prov], sub_provider |-> sub_prov] :
        sub_prov \in DOMAIN EUROPEANA_SUB_PROVIDERS}

\* select_query of update_europeana_sub_providers (lines 455-469)
EuropeanaSelect(image) ==
    {[foreign_id |-> p[1]["foreign_identifier"],
      data_providers |-> JsonbGetText(p[1]["meta_data"], "dataProvider"),
      sub_provider |-> p[2].sub_provider] :
        p \in {q \in image \X EuropeanaTempTable :
                  /\ SqlEq(q[1]["provider"], EUROPEANA_DEFAULT_PROVIDER)
                  /\ JsonbExists(JsonbGet(q[1]["meta_data"], "dataProvider"),
                                 q[2].data_provider)}}

MoreThanOneNever(eligible_sub_providers) == FALSE

\* len(eligible_sub_providers) > 1 (line 484)
MoreThanOne(eligible_sub_providers) == Cardinality(eligible_sub_providers) > 1

RECURSIVE EuropeanaLoop(_, _, _)
\* for row in selected_records (lines 477-502)
EuropeanaLoop(image, recs, done) ==
    IF recs = << >> THEN Ended(image, "none", done)
    ELSE LET row == Head(recs)
             data_providers == JsonLoads(row.data_providers)
             eligible_sub_providers ==
                 {s \in DOMAIN EUROPEANA_SUB_PROVIDERS :
                     PyIn(EUROPEANA_SUB_PROVIDERS[s], data_providers)}
         IN  IF data_providers.t = "JSONDecodeError"
             THEN Ended(image, "JSONDecodeError", done)
             ELSE IF MoreThanOne(eligible_sub_providers)
             THEN Ended(image, "Exception: More than one sub-provider", done)
             ELSE IF eligible_sub_providers # {row.sub_provider}
             THEN Ended(image, "AssertionError", done)
             ELSE EuropeanaLoop(UpdateSource(image, EUROPEANA_DEFAULT_PROVIDER,
                                             row.foreign_id, row.sub_provider),
                                Tail(recs), done \cup {row.foreign_id})

SmithsonianSelectAnySource(image) ==
    {[foreign_id |-> r["foreign_identifier"],
      unit_code |-> JsonbGetText(r["meta_data"], "unit_code")] :
        r \in {q \in image : SqlEq(q["provider"], SMITHSONIAN_DEFAULT_PROVIDER)}}

\* select_query of update_smithsonian_sub_providers (lines 521-531)
SmithsonianSelect(image) ==
    {[foreign_id |-> r["foreign_identifier"],
      unit_code |-> JsonbGetText(r["meta_data"], "unit_code")] :
        r \in {q \in image :
                  /\ SqlEq(q["provider"], SMITHSONIAN_DEFAULT_PROVIDER)
                  /\ SqlEq(q["source"], SMITHSONIAN_DEFAULT_PROVIDER)}}

\* the Python value of a selected unit_code: its string, None (NULL here)
\* when the store returned NULL.  The unit codes of the model's rows are
\* strings.
PyStr(x) == IF x.t = "text" THEN x.v ELSE NULL

SmithsonianSourceOrDefault(unit_code) ==
    IF \E s \in DOMAIN SMITHSONIAN_SUB_PROVIDERS :
          unit_code \in SMITHSONIAN_SUB_PROVIDERS[s]
    THEN CHOOSE s \in DOMAIN SMITHSONIAN_SUB_PROVIDERS :
            unit_code \in SMITHSONIAN_SUB_PROVIDERS[s]
    ELSE SMITHSONIAN_DEFAULT_PROVIDER

\* next((s for s in sub_providers if unit_code in sub_providers[s]), None)
\* (lines 543-544); no unit code is under two sub-providers
SmithsonianSource(unit_code) ==
    IF \E s \in DOMAIN SMITHSONIAN_SUB_PROVIDERS :
          unit_code \in SMITHSONIAN_SUB_PROVIDERS[s]
    THEN CHOOSE s \in DOMAIN SMITHSONIAN_SUB_PROVIDERS :
            unit_code \in SMITHSONIAN_SUB_PROVIDERS[s]
    ELSE NULL

RECURSIVE SmithsonianLoop(_, _, _)
\* for row in selected_records (lines 539-559)
SmithsonianLoop(image, recs, done) ==
    IF recs = << >> THEN Ended(image, "none", done)
    ELSE LET row == Head(recs)
             source == SmithsonianSource(PyStr(row.unit_code))
         IN  IF source = NULL
             THEN Ended(image, "Exception: An unknown unit code value", done)
             ELSE SmithsonianLoop(UpdateSource(image, SMITHSONIAN_DEFAULT_PROVIDER,
                                               row.foreign_id, source),
                                  Tail(recs), done \cup {row.foreign_id})

\* what a pass leaves alone
passFrame == << file, max_rows_to_skip, load_successful, pc, table_exists,
                staging, now, file0, skip0, staging0, attempts, cycles,
                deleted, reported, uncleaned, cleaned, mergedKeys, shadow,
                rowA, rowB >>

\* the pass op has run the loop over recs, which ended with end
PassEnds(op, recs, end) ==
    /\ selected' = recs
    /\ catalog' = end.image
    /\ updated' = end.updated
    /\ raised' = end.raised
    /\ catalog0' = catalog
    /\ rerun' = (lastOp = op /\ raised = "none")
    /\ lastOp' = op
    /\ upsertsInRow' = 0
    /\ UNCHANGED passFrame

\* update_flickr_sub_providers (lines 348-393): the temporary table is
\* dropped if there, created, filled, read and dropped
UpdateFlickrSubProviders ==
    /\ pc = "idle"
    /\ \E recs \in Orders(FlickrSelect(catalog)) :
          PassEnds("update_flickr_sub_providers", recs,
                   FlickrLoop(catalog, recs, {}))
    /\ temp_tables' = temp_tables \ {"temp_flickr_sub_prov_table"}

\* update_europeana_sub_providers (lines 446-507): the temporary table is
\* dropped at the end, which a raise does not reach
UpdateEuropeanaSubProviders ==
    /\ pc = "idle"
    /\ \E recs \in Orders(EuropeanaSelect(catalog)) :
          PassEnds("update_europeana_sub_providers", recs,
                   EuropeanaLoop(catalog, recs, {}))
    /\ temp_tables' = IF raised' = "none"
                      THEN temp_tables \ {"temp_eur_sub_prov_table"}
                      ELSE temp_tables \cup {"temp_eur_sub_prov_table"}

\* update_smithsonian_sub_providers (lines 510-559)
UpdateSmithsonianSubProviders ==
    /\ pc = "idle"
    /\ \E recs \in Orders(SmithsonianSelect(catalog)) :
          PassEnds("update_smithsonian_sub_providers", recs,
                   SmithsonianLoop(catalog, recs, {}))
    /\ UNCHANGED temp_tables

\* SpecReclass: the three passes, in any order and number, over an image
\* table of at most MaxRows rows of the three providers: rows a lookup
\* matches, rows it does not, rows that carry another sub-provider already.
ReclassRow(provider, foreign_id, source, creator_url, meta_data) ==
    InsertedRow([BaseRow EXCEPT !["provider"] = provider,
                                !["foreign_identifier"] = foreign_id,
                                !["source"] = source,
                                !["creator_url"] = creator_url,
                                !["meta_data"] = meta_data], 0)

DataProvider(names) ==
    JObj([k \in {"dataProvider"} |-> JArr([i \in DOMAIN names |-> JStr(names[i])])])

UnitCode(code) == JObj([k \in {"unit_code"} |-> JStr(code)])

FlickrRows ==
    { ReclassRow("flickr", "id1", "flickr", PhotoUrl["nasa_user"], JSqlNull),
      ReclassRow("flickr", "id1", "bio_diversity", PhotoUrl["nasa_user"], JSqlNull),
      ReclassRow("flickr", "id2", "flickr", PhotoUrl["bhl_user"], JSqlNull),
      ReclassRow("flickr", "id2", "flickr", "flickr.com/photos/someone", JSqlNull) }

EuropeanaRows ==
    { ReclassRow("europeana", "id1", "europeana", NULL,
                 DataProvider(<< "Wellcome Collection" >>)),
      ReclassRow("europeana", "id1", "nationalmuseum", NULL,
                 DataProvider(<< "Wellcome Collection" >>)),
      ReclassRow("europeana", "id2", "europeana", NULL,
                 DataProvider(<< "Wellcome Collection", "Nationalmuseum" >>)),
      ReclassRow("europeana", "id2", "europeana", NULL,
                 DataProvider(<< "Nationalmuseum", "Another Museum" >>)),
      ReclassRow("europeana", "id2", "europeana", NULL,
                 JObj([k \in {"dataProvider"} |-> JStr("Nationalmuseum")])),
      ReclassRow("europeana", "id2", "europeana", NULL, JSqlNull) }

SmithsonianRows ==
    { ReclassRow("smithsonian", "id1", "smithsonian", NULL, UnitCode("NMNH")),
      ReclassRow("smithsonian", "id1", "air_and_space", NULL, UnitCode("NMNH")),
      ReclassRow("smithsonian", "id2", "smithsonian", NULL, UnitCode("NASM")),
      ReclassRow("smithsonian", "id2", "smithsonian", NULL, UnitCode("XXXX")),
      ReclassRow("smithsonian", "id2", "smithsonian", NULL, JSqlNull) }

ReclassCatalogs ==
    {c \in SUBSET (FlickrRows \cup EuropeanaRows \cup SmithsonianRows) :
        /\ Cardinality(c) <= MaxRows
        /\ \A r1, r2 \in c : Key(r1) = Key(r2) => r1 = r2}

ReclassInit == \E image \in ReclassCatalogs : StartWith(image)

ReclassNext ==
    \/ UpdateFlickrSubProviders
    \/ UpdateEuropeanaSubProviders
    \/ UpdateSmithsonianSubProviders

SpecReclass == ReclassInit /\ [][ReclassNext]_vars

(***************************************************************************)
(* Properties of the sub-provider passes.                                  *)
(***************************************************************************)
Passes ==
    { "update_flickr_sub_providers", "update_europeana_sub_providers",
      "update_smithsonian_sub_providers" }

\* the last operation was a pass: catalog0 is the image table before it,
\* selected its selected_records, updated the foreign ids it ran UPDATE for
PassRan == lastOp \in Passes

\* default_provider of the last pass
DefaultProvider ==
    CASE lastOp = "update_flickr_sub_providers" -> FLICKR_DEFAULT_PROVIDER
      [] lastOp = "update_europeana_sub_providers" -> EUROPEANA_DEFAULT_PROVIDER
      [] OTHER -> SMITHSONIAN_DEFAULT_PROVIDER

\* the rows of the image table that the pass read into selected_records and
\* those its UPDATEs matched
SelectedRows ==
    {o \in catalog0 : /\ o["provider"] = DefaultProvider
                      /\ \E i \in DOMAIN selected :
                            selected[i].foreign_id = o["foreign_identifier"]}

UpdatedRows ==
    {o \in catalog0 : /\ o["provider"] = DefaultProvider
                      /\ o["foreign_identifier"] \in updated}

\* C15 as stated: a pass selects and updates only rows whose source is the
\* default provider; a row that carries a sub-provider is neither selected
\* nor written.
C15_OnlyUnclassifiedRows ==
    PassRan =>
      \A o \in SelectedRows \cup UpdatedRows : o["source"] = DefaultProvider

\* C15, amended: a pass selects and updates only rows whose provider is its
\* default provider, and writes no column but source; the rows of other
\* providers are as they were.  update_smithsonian_sub_providers selects and
\* updates only rows whose source is the default provider too.
C15_OnlyDefaultProviderRows ==
    PassRan =>
      /\ \A i \in DOMAIN selected :
            \E o \in SelectedRows : o["foreign_identifier"] = selected[i].foreign_id
      /\ \A o \in catalog0 :
            \E n \in RowsOf(catalog, Key(o)) :
               /\ \A c \in ImageCols \ {"source"} : n[c] = o[c]
               /\ n["source"] # o["source"] => o \in UpdatedRows
      /\ Cardinality(catalog) = Cardinality(catalog0)
      /\ lastOp = "update_smithsonian_sub_providers" =>
            /\ \A o \in SelectedRows \cup UpdatedRows : o["source"] = DefaultProvider
            /\ \A o \in catalog0 : o["source"] # DefaultProvider => o \in catalog

\* update_flickr_sub_providers selected a row that carried a sub-provider
\* and wrote its source, and left a row of another provider as it was
C15_Witness ==
    /\ lastOp = "update_flickr_sub_providers"
    /\ raised = "none"
    /\ \E o \in SelectedRows \cap UpdatedRows :
          /\ o["source"] = "bio_diversity"
          /\ \E n \in RowsOf(catalog, Key(o)) : n["source"] = "nasa"
    /\ \E o \in catalog0 : o["provider"] # FLICKR_DEFAULT_PROVIDER /\ o \in catalog

\* C16: a pass that runs right after a run of itself that ended without an
\* error ends without an error too and leaves the image table as that
\* first run left it.
C16_PassIdempotent ==
    PassRan /\ rerun => raised = "none" /\ catalog = catalog0

\* the second run of a pass found a row of its provider that the first run
\* had given a sub-provider
C16_Witness ==
    /\ PassRan
    /\ rerun
    /\ raised = "none"
    /\ \E o \in catalog0 :
          /\ o["provider"] = DefaultProvider
          /\ o["source"] \in (DOMAIN FLICKR_SUB_PROVIDERS)
                               \cup (DOMAIN EUROPEANA_SUB_PROVIDERS)
                               \cup (DOMAIN SMITHSONIAN_SUB_PROVIDERS)
          /\ o \in catalog

\* the sub-providers whose marker the dataProvider of the row o holds
MatchedSubProviders(o) ==
    {s \in DOMAIN EUROPEANA_SUB_PROVIDERS :
        JsonbExists(JsonbGet(o["meta_data"], "dataProvider"),
                    EUROPEANA_SUB_PROVIDERS[s])}

EuropeanaRowsOf(image) ==
    {o \in image : o["provider"] = EUROPEANA_DEFAULT_PROVIDER}

\* C17: when a row of the default provider matches the markers of more than
\* one sub-provider, update_europeana_sub_providers raises (the exception of
\* line 485, unless a dataProvider that is no json text stopped it before)
\* and every such row keeps its source; a row that matches one sub-provider
\* has it as source when the pass ends without an error, and whenever the
\* pass ran its UPDATE for the row.
C17_AmbiguousMatchRaises ==
    lastOp = "update_europeana_sub_providers" =>
      LET ambiguous == {o \in EuropeanaRowsOf(catalog0) :
                           Cardinality(MatchedSubProviders(o)) > 1}
      IN  /\ ambiguous # {} =>
                /\ raised \in {"Exception: More than one sub-provider",
                               "JSONDecodeError"}
                /\ ambiguous \subseteq catalog
          /\ raised = "Exception: More than one sub-provider" => ambiguous # {}
          /\ \A o \in EuropeanaRowsOf(catalog0) :
                /\ Cardinality(MatchedSubProviders(o)) = 1
                /\ raised = "none" \/ o["foreign_identifier"] \in updated
                => \E n \in RowsOf(catalog, Key(o)) :
                      MatchedSubProviders(o) = {n["source"]}

\* the pass gave a row that matches one sub-provider that sub-provider, then
\* came to a row that matches two and raised, leaving that row as it was
C17_Witness ==
    /\ lastOp = "update_europeana_sub_providers"
    /\ raised = "Exception: More than one sub-provider"
    /\ \E o \in EuropeanaRowsOf(catalog0) :
          /\ Cardinality(MatchedSubProviders(o)) = 2
          /\ o \in catalog
    /\ \E o \in EuropeanaRowsOf(catalog0) :
          /\ o["source"] = EUROPEANA_DEFAULT_PROVIDER
          /\ MatchedSubProviders(o) = {"wellcome_collection"}
          /\ \E n \in RowsOf(catalog, Key(o)) : n["source"] = "wellcome_collection"

\* the sub-providers that have the unit_code of the row o; none when the
\* row has no unit_code
CodeOwners(o) ==
    LET m == o["meta_data"]
    IN  IF m.t = "object"
        THEN {s \in DOMAIN SMITHSONIAN_SUB_PROVIDERS :
                 /\ "unit_code" \in DOMAIN m.v
                 /\ m.v["unit_code"].t = "string"
                 /\ m.v["unit_code"].v \in SMITHSONIAN_SUB_PROVIDERS[s]}
        ELSE {}

\* the rows update_smithsonian_sub_providers selects from image
Unclassified(image) ==
    {o \in image : /\ o["provider"] = SMITHSONIAN_DEFAULT_PROVIDER
                   /\ o["source"] = SMITHSONIAN_DEFAULT_PROVIDER}

\* C18: update_smithsonian_sub_providers raises exactly when a row it
\* selects has a unit_code of no sub-provider or has none; it writes
\* nothing to such a row.  A selected row whose unit_code a sub-provider has
\* gets that sub-provider as source when the pass ends without an error,
\* and whenever the pass ran its UPDATE for the row.
C18_UnknownCodeRaises ==
    lastOp = "update_smithsonian_sub_providers" =>
      LET unknown == {o \in Unclassified(catalog0) : CodeOwners(o) = {}}
      IN  /\ (unknown # {}) <=> (raised = "Exception: An unknown unit code value")
          /\ raised \in {"none", "Exception: An unknown unit code value"}
          /\ unknown \subseteq catalog
          /\ \A o \in Unclassified(catalog0) \ unknown :
                raised = "none" \/ o["foreign_identifier"] \in updated
                => \E n \in RowsOf(catalog, Key(o)) : CodeOwners(o) = {n["source"]}

\* the pass gave a row with a known unit_code its sub-provider, then came
\* to a row without unit_code and raised, leaving that row as it was
C18_Witness ==
    /\ lastOp = "update_smithsonian_sub_providers"
    /\ raised = "Exception: An unknown unit code value"
    /\ \E o \in Unclassified(catalog0) :
          /\ o["meta_data"] = JSqlNull
          /\ o \in catalog
    /\ \E o \in Unclassified(catalog0) :
          /\ CodeOwners(o) = {"natural_history"}
          /\ \E n \in RowsOf(catalog, Key(o)) : n["source"] = "natural_history"

\* C19 as stated: when update_europeana_sub_providers raises on an
\* ambiguous match or update_smithsonian_sub_providers on an unknown unit
\* code, every row of the image table has the source it had before the pass.
C19_RaiseLeavesNoChange ==
    /\ PassRan
    /\ raised \in {"Exception: More than one sub-provider",
                   "Exception: An unknown unit code value"}
    => \A o \in catalog0 :
          \E n \in RowsOf(catalog, Key(o)) : n["source"] = o["source"]

(***************************************************************************)
(* Two records of one identity key, merged in both orders.  SpecCommute    *)
(* runs the loader, the cleaner and the upsert on two image tables that    *)
(* start equal: catalog is given rowA and then rowB, shadow rowB and then  *)
(* rowA, each as a batch of one row.                                       *)
(***************************************************************************)
\* load the one-row file of the record r into an empty loading table, clean
\* it, upsert it into image at time t
MergeRecord(image, r, t) ==
    UpsertRecords(image, CleanIntermediateTableData(<< r >>), t)

commuteFrame == << file, max_rows_to_skip, load_successful, pc, raised,
                   table_exists, staging, file0, skip0, staging0, catalog0,
                   attempts, cycles, deleted, reported, uncleaned, cleaned,
                   upsertsInRow, mergedKeys, temp_tables, selected, updated,
                   rerun, rowA, rowB >>

MergeFirst ==
    /\ lastOp = "none"
    /\ catalog' = MergeRecord(catalog, rowA, now)
    /\ shadow' = MergeRecord(shadow, rowB, now)
    /\ now' = now + 1
    /\ lastOp' = "merge_first"
    /\ UNCHANGED commuteFrame

MergeSecond ==
    /\ lastOp = "merge_first"
    /\ catalog' = MergeRecord(catalog, rowB, now)
    /\ shadow' = MergeRecord(shadow, rowA, now)
    /\ now' = now + 1
    /\ lastOp' = "merge_second"
    /\ UNCHANGED commuteFrame

\* the records: one identity key; title and creator NULL or set, meta_data
\* and tags as in SpecJson
CommuteRows ==
    { With(BaseRow, "title", "a"), With(BaseRow, "title", "b"),
      With(BaseRow, "creator", "a"), With(BaseRow, "creator", "b") }
       \cup JsonRows

CommuteCatalogs == {{}} \cup {{InsertedRow(r, 0)} : r \in CommuteRows}

CommuteInit ==
    /\ \E image \in CommuteCatalogs : Started(image) /\ shadow = image
    /\ rowA \in CommuteRows
    /\ rowB \in CommuteRows

CommuteNext == MergeFirst \/ MergeSecond

SpecCommute == CommuteInit /\ [][CommuteNext]_vars

WithoutTimes(r) == [c \in ImageCols \ TimeCols |-> r[c]]

\* the two records set no scalar column to different values, no meta_data
\* key and no tag in common.  (Both carry the required columns, which the
\* cleaner demands, and carry them with the same values.)
DisjointUpdates ==
    /\ \A c \in ScalarCols : rowA[c] = NULL \/ rowB[c] = NULL \/ rowA[c] = rowB[c]
    /\ MetaKeys(rowA["meta_data"]) \cap MetaKeys(rowB["meta_data"]) = {}
    /\ Range(TagList(rowA["tags"])) \cap Range(TagList(rowB["tags"])) = {}

\* the row of image has, in every scalar column and under every meta_data
\* key that both records set, what the record last has
LastWins(image, first, last) ==
    \A n \in image :
       /\ \A c \in ScalarCols :
             first[c] # NULL /\ last[c] # NULL => n[c] = last[c]
       /\ \A k \in MetaKeys(first["meta_data"]) \cap MetaKeys(last["meta_data"]) :
             /\ first["meta_data"].v[k] # JNull
             /\ last["meta_data"].v[k] # JNull
             => k \in MetaKeys(n["meta_data"])
                   /\ n["meta_data"].v[k] = last["meta_data"].v[k]

\* C20: when the two records have been merged in both orders, the two image
\* tables hold the same rows apart from the three times if the records'
\* updates are disjoint; and in each table a scalar column or meta_data key
\* that both records set has the value of the record merged last.
C20_MergeCommutesLastWins ==
    lastOp = "merge_second" =>
      /\ DisjointUpdates =>
            {WithoutTimes(r) : r \in catalog} = {WithoutTimes(r) : r \in shadow}
      /\ LastWins(catalog, rowA, rowB)
      /\ LastWins(shadow, rowB, rowA)

\* two records that set different columns, keys or tags have been merged
\* into an existing row in both orders, and the row has what both set
C20_Witness ==
    /\ lastOp = "merge_second"
    /\ DisjointUpdates
    /\ catalog0 # {}
    /\ \/ rowA["title"] = "a" /\ rowB["creator"] = "b"
          /\ \A n \in catalog \cup shadow : n["title"] = "a" /\ n["creator"] = "b"
       \/ rowA["tags"] = JArr(<< JStr(1) >>) /\ rowB["tags"] = JArr(<< JStr(2) >>)
          /\ \A n \in catalog \cup shadow :
                n["tags"] = JArr(<< JStr(1), JStr(2) >>)
    /\ catalog # {} /\ shadow # {}

(***************************************************************************)
(* Ingestion runs and sub-provider passes in turn.  SpecResync starts from *)
(* an empty image table; a run loads a batch of at most MaxBatch rows of a *)
(* flickr and a smithsonian image, each with the provider as source or     *)
(* with no source, and a pass runs between two runs.  No batch carries a   *)
(* sub-provider as source: a row of the image table that has one got it    *)
(* from a pass.                                                            *)
(***************************************************************************)
ResyncLine(provider, source, creator_url, meta_data) ==
    [BaseRow EXCEPT !["provider"] = provider,
                    !["source"] = source,
                    !["creator_url"] = creator_url,
                    !["meta_data"] = meta_data]

ResyncLines ==
    {ResyncLine(FLICKR_DEFAULT_PROVIDER, source, PhotoUrl["nasa_user"], JSqlNull) :
        source \in {FLICKR_DEFAULT_PROVIDER, NULL}}
       \cup
    {ResyncLine(SMITHSONIAN_DEFAULT_PROVIDER, source, NULL, UnitCode("NMNH")) :
        source \in {SMITHSONIAN_DEFAULT_PROVIDER, NULL}}

ResyncFiles == SeqsUpTo(ResyncLines, MaxBatch)

LoadResync == MayLoad /\ \E f \in ResyncFiles : LoadS3Data(f)

\* a pass runs when no ingestion run is under way
MayReclassify == ~ table_exists

ReclassifyFlickr == MayReclassify /\ UpdateFlickrSubProviders

ReclassifySmithsonian == MayReclassify /\ UpdateSmithsonianSubProviders

ResyncNext ==
    \/ Create
    \/ LoadResync
    \/ Upsert
    \/ Drop
    \/ ReclassifyFlickr
    \/ ReclassifySmithsonian

SpecResync == PipelineInit /\ [][ResyncNext]_vars

SubProviderLabels ==
    (DOMAIN FLICKR_SUB_PROVIDERS) \cup (DOMAIN EUROPEANA_SUB_PROVIDERS)
       \cup (DOMAIN SMITHSONIAN_SUB_PROVIDERS)

\* C21: an upsert treats a source that a pass has set like any scalar: the
\* row of a key the batch carries takes the incoming source when that is
\* not NULL, the provider's default included, and keeps the sub-provider
\* only when the incoming source is NULL.
C21_ResyncOverwritesLabel ==
    [][lastOp' = "upsert" /\ raised' = "none" /\ now' = now + 1 =>
         \A o \in {r \in catalog : r["source"] \in SubProviderLabels} :
            /\ RowsOf(catalog', Key(o)) # {}
            /\ \A n \in RowsOf(catalog', Key(o)) :
                  \A s \in RowsOf(Range(staging), Key(o)) :
                     n["source"] = IF s["source"] # NULL THEN s["source"]
                                   ELSE o["source"]]_vars

\* one upsert has given a row that a pass had labelled nasa the source
\* flickr again, and has left the label of a row whose incoming source was
\* NULL
C21_Witness ==
    /\ Upserted
    /\ \E p \in MergedPairs :
          /\ p[1]["source"] = "nasa"
          /\ p[2]["source"] = FLICKR_DEFAULT_PROVIDER
          /\ \E n \in RowsOf(catalog, Key(p[1])) : n["source"] = FLICKR_DEFAULT_PROVIDER
    /\ \E p \in MergedPairs :
          /\ p[1]["source"] = "natural_history"
          /\ p[2]["source"] = NULL
          /\ \E n \in RowsOf(catalog, Key(p[1])) : n["source"] = "natural_history"

(***************************************************************************)
(* Termination of the loader.  SpecLoadFair is one call of                 *)
(* load_local_data_to_intermediate_table for every file of at most         *)
(* MaxLines good or malformed lines and every max_rows_to_skip in          *)
(* 0..MaxSkip, in which the line number COPY's error message names is any  *)
(* line of the file or the one after its last: nothing is assumed of it.   *)
(* The call is sequential code, so a step that can be taken is taken.      *)
(***************************************************************************)
TermLines ==
    { With(BaseRow, "title", "a"), With(BaseRow, "meta_data", JMalformed) }

TermInit == LoadInitOver(SeqsUpTo(TermLines, MaxLines))

BulkLoadAttemptAnyLine == \E n \in 1..(Len(file) + 1) : BulkLoadAttemptAt(n)

TermNext == BulkLoadAttemptAnyLine \/ LoadRaise \/ LoadClean

SpecLoadFair == TermInit /\ [][TermNext]_vars /\ WF_vars(TermNext)

\* C22: the call ends; it makes at most max_rows_to_skip + 1 attempts,
\* every attempt takes one from the budget whether or not it removed a line
\* from the file, and when the call has ended it has loaded and cleaned the
\* loading table or has raised.
C22_LoaderTerminates ==
    /\ <>LoadEnded
    /\ [](attempts <= skip0 + 1)
    /\ [](max_rows_to_skip = skip0 - attempts)
    /\ [](LoadEnded => \/ load_successful /\ cleaned /\ raised = "none"
                       \/ ~ cleaned /\ raised = "InvalidTextRepresentation")

\* a call has used its max_rows_to_skip + 1 attempts and raised, and one of
\* them named a line the file did not have and removed none
C22_Witness ==
    /\ LoadEnded
    /\ raised = "InvalidTextRepresentation"
    /\ skip0 >= 1
    /\ attempts = skip0 + 1
    /\ \E i \in DOMAIN deleted : deleted[i] > Len(file0)
    /\ Len(file) + attempts > Len(file0)

=============================================================================
